---- MODULE Spec2Model ----
(***************************************************************************)
(* Gift Aid portal: the claim lifecycle (draft -> ready -> submitted), the *)
(* donation-record handlers that mutate claim_items, and the submit/poll   *)
(* handlers that talk to the HMRC gateway; the gateway connections, the    *)
(* builder of the submission document, the encryption of the stored        *)
(* credentials, and the handlers that write the charity's identifier.      *)
(*                                                                         *)
(* Every handler is an async function; between two awaits other requests   *)
(* run.  A handler is therefore one action per await that reads or writes  *)
(* shared rows (claims, claim_items) or waits for the gateway; the         *)
(* synchronous code after an await belongs to that action.  Money is kept  *)
(* in pence.                                                               *)
(***************************************************************************)
EXTENDS Integers, Sequences, FiniteSets, TLC

\* ---------------------------------------------------------------- bounds
MaxItems == 2
MaxConns == 4
MaxDonors == 2

ClaimIds == {"c1"}
ItemIds == 1..MaxItems
\* one multi-await request in flight at a time; the single-statement
\* handlers (update, delete, later add) run between any two of its awaits
Slots == {"r1"}
\* two requests in flight at once, for the handlers whose races are studied
RaceSlots == {"r1", "r2"}

\* donation amounts a request can carry, in pence (10.00 and 25.50), and
\* one amount that fails Number.isFinite(a) && a > 0
Amounts == {1000, 2550}
BadAmount == 0
InputAmounts == Amounts \cup {BadAmount}

XmlModes == {"ETS", "LIVE", "LTS"}
CharIdValues == {"", "XR123"}
Outcomes == {"ok2xx", "non2xx", "timeout", "network"}
\* what the body of a 2xx poll reply says about the submission (the GovTalk
\* Qualifier): still being processed, accepted, or refused
PollReplies == {"acknowledgement", "response", "error"}

\* rows of hmrc_connections, and the two save-connection endpoints, each
\* with one request in flight for the same charity
ConnIds == 1..MaxConns
Savers == {"user", "admin"}

\* the builder's revisions under src/: the current one (header by mode),
\* 2026-01-26-v2 and 2026-01-18-v3
Revisions == {"modes", "v2", "v3"}
\* new Date().toISOString() at two different moments
Clock == {"2026-01-28T10:00:00.000", "2026-01-28T10:00:07.000"}
PeriodStart == "2024-04-06"
PeriodEnd == "2025-04-05"
\* HMRC_SENDER_ID and HMRC_AUTH_VALUE when the environment sets them
EnvSenderId == <<"s">>
EnvAuthValue == <<"p", "<", "&">>

\* field values: plain, padded, with each of & < > " ', with a lone brace,
\* with "{{", and spelling a placeholder of the template
Texts ==
  { <<"a">>, <<" ", "a", " ">>, <<"a", "&", "<">>, <<">", "\"", "'">>,
    <<"{", "a", "{">>, <<"{", "{">>, <<"{", "{", "EARLIEST_GA_DATE", "}", "}">> }
OrgNames == { <<>>, <<"&", "'">> }

PlainDonor(t, d, a) ==
  [fore |-> t, sur |-> <<"a">>, house |-> <<"a">>, postcode |-> <<"a", "1">>,
   date |-> d, amount |-> a]
\* stored rows that pass every check, with two dates and two amounts
SecondDonors == {PlainDonor(<<"a">>, d, a) : d \in {"2024-05-01", "2024-06-15"}, a \in Amounts}
\* ... rows with each text as first name, and rows with one field missing
\* or malformed
DonorInputs ==
  SecondDonors
  \cup {PlainDonor(t, "2024-05-01", 1000) : t \in Texts}
  \cup {PlainDonor(<<" ">>, "2024-05-01", 1000)}
  \cup {[PlainDonor(<<"a">>, "2024-05-01", 1000) EXCEPT !.sur = <<>>],
        [PlainDonor(<<"a">>, "2024-05-01", 1000) EXCEPT !.house = <<>>],
        [PlainDonor(<<"a">>, "2024-05-01", 1000) EXCEPT !.postcode = <<" ">>]}
  \cup {PlainDonor(<<"a">>, d, 1000) : d \in {"", "not a date", "2024-13-45"}}
  \cup {PlainDonor(<<"a">>, "2024-05-01", BadAmount)}

RECURSIVE DonorSeqsOfLen(_)
DonorSeqsOfLen(n) ==
  IF n = 0 THEN {<<>>}
  ELSE IF n = 1 THEN {<<x>> : x \in DonorInputs}
  ELSE {Append(s, y) : s \in DonorSeqsOfLen(n - 1), y \in SecondDonors}
DonorSeqs == UNION {DonorSeqsOfLen(n) : n \in 0..MaxDonors}

VARIABLES
  claims,     \* claims table: ClaimIds -> row
  items,      \* claim_items table: ItemIds -> row (claim = "none": no row)
  charity,    \* the charities row owning the claims
  slot,       \* requests in flight: handler, await position, locals
  res,        \* the last HTTP response sent by a handler
  conns,      \* hmrc_connections of the charity: ConnIds -> row
  saves,      \* save-connection requests in flight: await position, created id
  hmrc_connection_id,  \* charities.hmrc_connection_id (0: null)
  donors,     \* claim c1's claim_items with their donor fields, in input order
  orgName,    \* charities.name
  config,     \* deployed builder revision, HMRC_XML_MODE, credential env values
  built,      \* what the last call of generateHmrcGiftAidXml returned or threw
  builtBefore, \* ... and the call before it
  KEY,        \* HMRC_CRED_ENCRYPTION_KEY as the process read it
  credObj,    \* the credential object save-connection passed to encryptJson
  sealed,     \* what encryptJson returned or threw
  credentials_encrypted,  \* hmrc_connections.credentials_encrypted as stored
  opened,     \* what decryptJson returned or threw
  charities,  \* charities table, identifiers as text: row -> charity_id, charity_number
  written,    \* claim_items rows of a draft claim as the entry handlers wrote them
  errorText   \* the error of the last HTTP response ("": none)

connVars == <<conns, saves, hmrc_connection_id>>
xmlVars == <<donors, orgName, config, built, builtBefore>>
vaultVars == <<KEY, credObj, sealed, credentials_encrypted, opened>>
entryVars == <<charities, written, errorText>>
auxVars == <<vaultVars, entryVars>>
vars == <<claims, items, charity, slot, res, conns, saves, hmrc_connection_id,
          donors, orgName, config, built, builtBefore,
          KEY, credObj, sealed, credentials_encrypted, opened,
          charities, written, errorText>>

NoItem == [claim |-> "none", amount |-> 0]
Idle == [op |-> "idle", pc |-> "", claim |-> "c1", count |-> 0, total |-> 0, rows |-> <<>>]
NoRes == [op |-> "none", code |-> 0]
NoConn == [exists |-> FALSE, active |-> FALSE]
SaveIdle == [pc |-> "idle", created |-> 0]

\* the handler that answered last and the HTTP status it sent
Reply(op, code) == [op |-> op, code |-> code]

\* ------------------------------------------------------------- helpers
\* rows of claim_items with claim_id = c, as the select returns them
ItemsOf(c) == {i \in ItemIds : items[i].claim = c}

RECURSIVE SelectAmounts(_, _)
SelectAmounts(c, i) ==
  IF i > MaxItems THEN <<>>
  ELSE IF items[i].claim = c
       THEN <<items[i].amount>> \o SelectAmounts(c, i + 1)
       ELSE SelectAmounts(c, i + 1)

\* (items ?? []).reduce((s, it) => s + Number(it.donation_amount || 0), 0)
\* (a reducer that drops its accumulator: (s, it) => Number(it.donation_amount))
ReduceSumLastOnly(rows) ==
  IF rows = <<>> THEN 0 ELSE rows[Len(rows)]
RECURSIVE ReduceSum(_)
ReduceSum(rows) ==
  IF rows = <<>> THEN 0 ELSE Head(rows) + ReduceSum(Tail(rows))

FreeIds == {i \in ItemIds : items[i].claim = "none"}
\* the id the datastore gives the next inserted row
NewId == CHOOSE i \in FreeIds : \A j \in FreeIds : i <= j

RECURSIVE InsertRows(_, _, _)
InsertRows(tbl, c, rows) ==
  IF rows = <<>> THEN tbl
  ELSE LET free == {i \in ItemIds : tbl[i].claim = "none"}
           id == CHOOSE i \in free : \A j \in free : i <= j
       IN InsertRows([tbl EXCEPT ![id] = [claim |-> c, amount |-> Head(rows)]], c, Tail(rows))

ValidAmount(a) == a > 0

CanStart(r) == slot[r].op = "idle"

Begin(r, op, pc, c) == [slot EXCEPT ![r] = [Idle EXCEPT !.op = op, !.pc = pc, !.claim = c]]
Finish(r) == [slot EXCEPT ![r] = Idle]

\* ----------------------------------------------------------------- Init
InitClaims ==
  /\ claims = [c \in ClaimIds |->
       [status |-> "draft", donation_count |-> 0, total_amount |-> 0,
        hmrc_correlation_id |-> "", hmrc_last_message |-> "none"]]
  /\ items = [i \in ItemIds |-> NoItem]
  /\ slot = [r \in Slots |-> Idle]
  /\ res = NoRes

NoConnections ==
  /\ conns = [k \in ConnIds |-> NoConn]
  /\ saves = [s \in Savers |-> SaveIdle]
  /\ hmrc_connection_id = 0

NotBuilt == [ok |-> FALSE, doc |-> <<>>, error |-> "not called", item |-> 0, snippet |-> <<>>]
NoBuilds ==
  /\ built = NotBuilt
  /\ builtBefore = NotBuilt

\* the operator secrets: none, one shorter than 16 characters, two valid
Secrets == {"", "tooshort", "0123456789abcdef", "fedcba9876543210x"}
NoObj == [k \in {} |-> <<>>]
NotSealed == [ok |-> FALSE, payload |-> <<>>, error |-> "not called"]
NotOpened == [ok |-> FALSE, value |-> NoObj, error |-> "not called"]
NoVault ==
  /\ credObj = NoObj
  /\ sealed = NotSealed
  /\ credentials_encrypted = <<>>
  /\ opened = NotOpened

\* rows of the charities table
MaxCharities == 2
CharityRows == 1..MaxCharities
NoCharity == [exists |-> FALSE, charity_id |-> <<>>, charity_number |-> <<>>]
NoEntries ==
  /\ charities = [k \in CharityRows |-> NoCharity]
  /\ written = <<>>
  /\ errorText = ""

Init ==
  /\ InitClaims
  /\ charity \in [charity_number : CharIdValues, charity_id : CharIdValues]
  /\ NoConnections
  /\ donors = <<>>
  /\ orgName = <<"O">>
  /\ config = [rev |-> "modes", mode |-> "ETS", creds |-> "unset"]
  /\ NoBuilds
  /\ KEY = "0123456789abcdef"
  /\ NoVault
  /\ NoEntries

\* ------------------------------------------------- claim_items handlers
\* (no trigger installed)
DraftOnlyTriggerOff(i) == TRUE
\* the datastore trigger on claim_items that update-item.ts and
\* delete-item.ts rely on: a row changes only while its claim is draft
DraftOnlyTrigger(i) == claims[items[i].claim].status = "draft"

\* POST update-item: validation, then one update of the row by id
UpdateItem(i, a) ==
  /\ UNCHANGED <<connVars, xmlVars, auxVars>>
  /\ UNCHANGED <<claims, charity, slot>>
  /\ IF ~ValidAmount(a)
     THEN /\ res' = Reply("update", 400)
          /\ UNCHANGED items
     ELSE IF items[i].claim = "none" \/ ~DraftOnlyTrigger(i)
     THEN /\ res' = Reply("update", 500)
          /\ UNCHANGED items
     ELSE /\ items' = [items EXCEPT ![i].amount = a]
          /\ res' = Reply("update", 200)

\* POST delete-item: one delete of the row by id
DeleteItem(i) ==
  /\ UNCHANGED <<connVars, xmlVars, auxVars>>
  /\ UNCHANGED <<claims, charity, slot>>
  /\ IF items[i].claim = "none"
     THEN /\ res' = Reply("delete", 200)
          /\ UNCHANGED items
     ELSE IF ~DraftOnlyTrigger(i)
     THEN /\ res' = Reply("delete", 500)
          /\ UNCHANGED items
     ELSE /\ items' = [items EXCEPT ![i] = NoItem]
          /\ res' = Reply("delete", 200)

\* POST add-item (first revision): validate, read the claim's status ...
AddItemCheck(r, c, a) ==
  /\ UNCHANGED <<connVars, xmlVars, auxVars>>
  /\ CanStart(r)
  /\ UNCHANGED <<claims, items, charity>>
  /\ IF ~ValidAmount(a)
     THEN /\ res' = Reply("add", 400)
          /\ UNCHANGED slot
     ELSE IF claims[c].status # "draft"
     THEN /\ res' = Reply("add", 400)
          /\ UNCHANGED slot
     ELSE /\ slot' = [Begin(r, "add", "insert", c) EXCEPT ![r].rows = <<a>>]
          /\ UNCHANGED res

\* ... then insert the row
AddItemInsert(r) ==
  /\ UNCHANGED <<connVars, xmlVars, auxVars>>
  /\ slot[r].op = "add" /\ slot[r].pc = "insert"
  /\ FreeIds # {}
  /\ items' = InsertRows(items, slot[r].claim, slot[r].rows)
  /\ res' = Reply("add", 200)
  /\ slot' = Finish(r)
  /\ UNCHANGED <<claims, charity>>

\* POST add-item (later revision): validate and insert, no status read
AddItemLater(c, a) ==
  /\ UNCHANGED <<connVars, xmlVars, auxVars>>
  /\ UNCHANGED <<claims, charity, slot>>
  /\ IF ~ValidAmount(a)
     THEN /\ res' = Reply("addLater", 400)
          /\ UNCHANGED items
     ELSE /\ FreeIds # {}
          /\ items' = InsertRows(items, c, <<a>>)
          /\ res' = Reply("addLater", 200)

\* the rows of an import that pass the per-row validation
RECURSIVE ValidRows(_)
ValidRows(rows) ==
  IF rows = <<>> THEN <<>>
  ELSE IF ValidAmount(Head(rows))
       THEN <<Head(rows)>> \o ValidRows(Tail(rows))
       ELSE ValidRows(Tail(rows))

ImportInputs == {<<a>> : a \in InputAmounts} \cup {<<a, b>> : a \in Amounts, b \in InputAmounts}

\* POST import-csv: read the claim's status, validate the rows ...
ImportCsvCheck(r, c, rows) ==
  /\ UNCHANGED <<connVars, xmlVars, auxVars>>
  /\ CanStart(r)
  /\ UNCHANGED <<claims, items, charity>>
  /\ IF claims[c].status # "draft"
     THEN /\ res' = Reply("import", 400)
          /\ UNCHANGED slot
     ELSE IF ValidRows(rows) = <<>>
     THEN /\ res' = Reply("import", 200)
          /\ UNCHANGED slot
     ELSE /\ slot' = [Begin(r, "import", "insert", c) EXCEPT ![r].rows = ValidRows(rows)]
          /\ UNCHANGED res

\* ... then insert the valid rows as one chunk
ImportCsvInsert(r) ==
  /\ UNCHANGED <<connVars, xmlVars, auxVars>>
  /\ slot[r].op = "import" /\ slot[r].pc = "insert"
  /\ Cardinality(FreeIds) >= Len(slot[r].rows)
  /\ items' = InsertRows(items, slot[r].claim, slot[r].rows)
  /\ res' = Reply("import", 200)
  /\ slot' = Finish(r)
  /\ UNCHANGED <<claims, charity>>

\* ------------------------------------------------------------ mark ready
\* (mark-ready without its donation_count === 0 refusal)
MarkReadyReadNoEmptyCheck(r, c) ==
  /\ UNCHANGED <<connVars, xmlVars, auxVars>>
  /\ CanStart(r)
  /\ UNCHANGED <<claims, items, charity, res>>
  /\ LET rows == SelectAmounts(c, 1) IN
     slot' = [Begin(r, "markReady", "update", c) EXCEPT
                ![r].count = Len(rows), ![r].total = ReduceSum(rows)]
\* POST mark-ready: select the claim's donation amounts, total them,
\* refuse an empty claim ...
MarkReadyRead(r, c) ==
  /\ UNCHANGED <<connVars, xmlVars, auxVars>>
  /\ CanStart(r)
  /\ UNCHANGED <<claims, items, charity>>
  /\ LET rows == SelectAmounts(c, 1) IN
     IF Len(rows) = 0
     THEN /\ res' = Reply("markReady", 400)
          /\ UNCHANGED slot
     ELSE /\ slot' = [Begin(r, "markReady", "update", c) EXCEPT
                        ![r].count = Len(rows), ![r].total = ReduceSum(rows)]
          /\ UNCHANGED res

\* ... then update the claim row, whatever its status is
MarkReadyWrite(r) ==
  /\ UNCHANGED <<connVars, xmlVars, auxVars>>
  /\ slot[r].op = "markReady" /\ slot[r].pc = "update"
  /\ claims' = [claims EXCEPT ![slot[r].claim].status = "ready",
                              ![slot[r].claim].donation_count = slot[r].count,
                              ![slot[r].claim].total_amount = slot[r].total]
  /\ res' = Reply("markReady", 200)
  /\ slot' = Finish(r)
  /\ UNCHANGED <<items, charity>>

\* --------------------------------------------------- envelope builder
\* chooseCharIdForMode with HMRC_TEST_CHARID unset: ETS falls back to the
\* technical pack's sample identifier
chooseCharIdForMode(mode, charityNumberOrLegacy) ==
  IF mode = "ETS"
  THEN (IF charityNumberOrLegacy # "" THEN charityNumberOrLegacy ELSE "AB12345")
  ELSE charityNumberOrLegacy

\* generateHmrcGiftAidXml up to its first throw: the claim row exists, the
\* identifier is charity_number or else the legacy charity_id, the claim
\* has rows, every stored row has an amount > 0.  TRUE: a document is built.
GenerateBuilds(mode, c) ==
  LET rawCharid == IF charity.charity_number # "" THEN charity.charity_number
                   ELSE charity.charity_id
      rows == SelectAmounts(c, 1)
  IN /\ chooseCharIdForMode(mode, rawCharid) # ""
     /\ Len(rows) > 0
     /\ \A k \in 1..Len(rows) : ValidAmount(rows[k])

\* httpPostXml: fetch with an abort timer inside try/finally, no catch.
\* Any HTTP response is returned as a result {ok, status, bodyText}; the
\* abort of a timeout and a network failure leave it as the exception
\* fetch threw.  hmrcTestSubmit and hmrcTestPoll return what it returns.
httpPostXml(outcome) ==
  CASE outcome = "ok2xx"   -> [returns |-> TRUE,  ok |-> TRUE,  thrown |-> "none"]
    [] outcome = "non2xx"  -> [returns |-> TRUE,  ok |-> FALSE, thrown |-> "none"]
    [] outcome = "timeout" -> [returns |-> FALSE, ok |-> FALSE, thrown |-> "AbortError"]
    [] outcome = "network" -> [returns |-> FALSE, ok |-> FALSE, thrown |-> "TypeError"]

\* a POST of the envelope to the submission URL is awaiting its outcome
AwaitingGateway(r) == slot[r].op \in {"submit", "isv1", "isv2"} /\ slot[r].pc = "receive"

SetMessage(c, m) == [claims EXCEPT ![c].hmrc_last_message = m]

\* ------------------------------------------- operator submit (TEST engine)
\* (a submit that refuses a claim another submit is working on)
SubmitLoadClaimLocked(r, c) ==
  /\ UNCHANGED <<connVars, xmlVars, auxVars>>
  /\ CanStart(r)
  /\ UNCHANGED <<claims, items, charity>>
  /\ IF claims[c].status # "ready"
     THEN /\ res' = Reply("submit", 400)
          /\ UNCHANGED slot
     ELSE IF \E q \in DOMAIN slot : slot[q].op = "submit" /\ slot[q].claim = c
     THEN /\ res' = Reply("submit", 409)
          /\ UNCHANGED slot
     ELSE /\ slot' = Begin(r, "submit", "charity", c)
          /\ UNCHANGED res
\* load the claim; it must be ready ...
SubmitLoadClaim(r, c) ==
  /\ UNCHANGED <<connVars, xmlVars, auxVars>>
  /\ CanStart(r)
  /\ UNCHANGED <<claims, items, charity>>
  /\ IF claims[c].status # "ready"
     THEN /\ res' = Reply("submit", 400)
          /\ UNCHANGED slot
     ELSE /\ slot' = Begin(r, "submit", "charity", c)
          /\ UNCHANGED res

\* ... load the charity; charity_number is the CHARID and must be set ...
SubmitLoadCharity(r) ==
  /\ UNCHANGED <<connVars, xmlVars, auxVars>>
  /\ slot[r].op = "submit" /\ slot[r].pc = "charity"
  /\ UNCHANGED <<claims, items, charity>>
  /\ IF charity.charity_number = ""
     THEN /\ res' = Reply("submit", 400)
          /\ slot' = Finish(r)
     ELSE /\ slot' = [slot EXCEPT ![r].pc = "items"]
          /\ UNCHANGED res

\* ... load the rows, build the document and POST it (hmrcTestSubmit) ...
SubmitLoadItems(r) ==
  /\ UNCHANGED <<connVars, xmlVars, auxVars>>
  /\ slot[r].op = "submit" /\ slot[r].pc = "items"
  /\ UNCHANGED <<claims, items, charity>>
  /\ LET rows == SelectAmounts(slot[r].claim, 1) IN
     IF Len(rows) = 0
     THEN /\ res' = Reply("submit", 400)
          /\ slot' = Finish(r)
     ELSE /\ slot' = [slot EXCEPT ![r].pc = "receive",
                                  ![r].count = Len(rows), ![r].total = ReduceSum(rows)]
          /\ UNCHANGED res

\* ... httpPostXml returns a result for any HTTP response and throws on a
\* timeout (abort) or a network failure; the handler's catch answers 403
SubmitStore(r, outcome) ==
  /\ UNCHANGED <<connVars, xmlVars, auxVars>>
  /\ slot[r].op = "submit" /\ slot[r].pc = "receive"
  /\ slot' = Finish(r)
  /\ UNCHANGED <<items, charity>>
  /\ IF ~httpPostXml(outcome).returns
     THEN /\ res' = Reply("submit", 403)
          /\ UNCHANGED claims
     ELSE /\ claims' = [claims EXCEPT ![slot[r].claim] =
                 [status |-> "submitted",
                  donation_count |-> slot[r].count,
                  total_amount |-> slot[r].total,
                  hmrc_correlation_id |-> slot[r].claim,
                  hmrc_last_message |->
                    IF httpPostXml(outcome).ok THEN "test_accepted" ELSE "test_failed"]]
          /\ res' = Reply("submit", 200)

\* --------------------------------------- submit to ISV, first revision
\* generate the document (no status read) and POST it ...
IsvSubmitSend(r, c, mode) ==
  /\ UNCHANGED <<connVars, xmlVars, auxVars>>
  /\ CanStart(r)
  /\ UNCHANGED <<claims, items, charity>>
  /\ IF ~GenerateBuilds(mode, c)
     THEN /\ res' = Reply("isv1", 500)
          /\ UNCHANGED slot
     ELSE /\ slot' = Begin(r, "isv1", "receive", c)
          /\ UNCHANGED res

\* ... a non-2xx receipt is saved as a message; a timeout or network
\* failure leaves the try block as an exception and writes nothing
IsvSubmitStore(r, outcome) ==
  /\ UNCHANGED <<connVars, xmlVars, auxVars>>
  /\ slot[r].op = "isv1" /\ slot[r].pc = "receive"
  /\ slot' = Finish(r)
  /\ UNCHANGED <<items, charity>>
  /\ CASE outcome = "ok2xx" ->
            /\ claims' = [claims EXCEPT ![slot[r].claim].status = "submitted",
                                        ![slot[r].claim].hmrc_last_message = "isv_sent"]
            /\ res' = Reply("isv1", 200)
       [] outcome = "non2xx" ->
            /\ claims' = SetMessage(slot[r].claim, "isv_http_failed")
            /\ res' = Reply("isv1", 502)
       [] OTHER ->
            /\ UNCHANGED claims
            /\ res' = Reply("isv1", 500)

\* -------------------------------------- submit to ISV, second revision
\* preflight GET of the gateway host; unreachable: message saved, 502 ...
IsvPreflight(r, c, reachable) ==
  /\ UNCHANGED <<connVars, xmlVars, auxVars>>
  /\ CanStart(r)
  /\ UNCHANGED <<items, charity>>
  /\ IF ~reachable
     THEN /\ claims' = SetMessage(c, "isv_preflight_failed")
          /\ res' = Reply("isv2", 502)
          /\ UNCHANGED slot
     ELSE /\ slot' = Begin(r, "isv2", "generate", c)
          /\ UNCHANGED <<claims, res>>

\* ... generate the document and POST it ...
IsvGenerateSend(r, mode) ==
  /\ UNCHANGED <<connVars, xmlVars, auxVars>>
  /\ slot[r].op = "isv2" /\ slot[r].pc = "generate"
  /\ UNCHANGED <<claims, items, charity>>
  /\ IF ~GenerateBuilds(mode, slot[r].claim)
     THEN /\ res' = Reply("isv2", 500)
          /\ slot' = Finish(r)
     ELSE /\ slot' = [slot EXCEPT ![r].pc = "receive"]
          /\ UNCHANGED res

\* ... every outcome but a 2xx receipt saves a message and answers 502
IsvStore(r, outcome) ==
  /\ UNCHANGED <<connVars, xmlVars, auxVars>>
  /\ slot[r].op = "isv2" /\ slot[r].pc = "receive"
  /\ slot' = Finish(r)
  /\ UNCHANGED <<items, charity>>
  /\ CASE outcome = "ok2xx" ->
            /\ claims' = [claims EXCEPT ![slot[r].claim].status = "submitted",
                                        ![slot[r].claim].hmrc_last_message = "isv_sent"]
            /\ res' = Reply("isv2", 200)
       [] outcome = "non2xx" ->
            /\ claims' = SetMessage(slot[r].claim, "isv_http_failed")
            /\ res' = Reply("isv2", 502)
       [] OTHER ->
            /\ claims' = SetMessage(slot[r].claim, "isv_fetch_failed")
            /\ res' = Reply("isv2", 502)

\* ------------------------------------------------ charity-user submit
\* load the claim (only a draft is taken) and the charity, whose legacy
\* charity_id must be set ...
UserSubmitLoad(r, c) ==
  /\ UNCHANGED <<connVars, xmlVars, auxVars>>
  /\ CanStart(r)
  /\ UNCHANGED <<claims, items, charity>>
  /\ IF claims[c].status # "draft" \/ charity.charity_id = ""
     THEN /\ res' = Reply("userSubmit", 400)
          /\ UNCHANGED slot
     ELSE /\ slot' = Begin(r, "userSubmit", "count", c)
          /\ UNCHANGED res

\* ... count the claim's rows ...
UserSubmitCount(r) ==
  /\ UNCHANGED <<connVars, xmlVars, auxVars>>
  /\ slot[r].op = "userSubmit" /\ slot[r].pc = "count"
  /\ UNCHANGED <<claims, items, charity>>
  /\ IF Cardinality(ItemsOf(slot[r].claim)) = 0
     THEN /\ res' = Reply("userSubmit", 400)
          /\ slot' = Finish(r)
     ELSE /\ slot' = [slot EXCEPT ![r].pc = "generate",
                                  ![r].count = Cardinality(ItemsOf(slot[r].claim))]
          /\ UNCHANGED res

\* ... generate the document (it loads claim, charity and rows itself) ...
UserSubmitGenerate(r, mode) ==
  /\ UNCHANGED <<connVars, xmlVars, auxVars>>
  /\ slot[r].op = "userSubmit" /\ slot[r].pc = "generate"
  /\ UNCHANGED <<claims, items, charity>>
  /\ IF ~GenerateBuilds(mode, slot[r].claim)
     THEN /\ res' = Reply("userSubmit", 401)
          /\ slot' = Finish(r)
     ELSE /\ slot' = [slot EXCEPT ![r].pc = "amounts"]
          /\ UNCHANGED res

\* ... select the amounts again and total them ...
UserSubmitAmounts(r) ==
  /\ UNCHANGED <<connVars, xmlVars, auxVars>>
  /\ slot[r].op = "userSubmit" /\ slot[r].pc = "amounts"
  /\ slot' = [slot EXCEPT ![r].pc = "update",
                          ![r].total = ReduceSum(SelectAmounts(slot[r].claim, 1))]
  /\ UNCHANGED <<claims, items, charity, res>>

\* ... and mark the claim submitted; nothing is sent to the gateway
UserSubmitStore(r) ==
  /\ UNCHANGED <<connVars, xmlVars, auxVars>>
  /\ slot[r].op = "userSubmit" /\ slot[r].pc = "update"
  /\ claims' = [claims EXCEPT ![slot[r].claim].status = "submitted",
                              ![slot[r].claim].donation_count = slot[r].count,
                              ![slot[r].claim].total_amount = slot[r].total,
                              ![slot[r].claim].hmrc_last_message = "queued"]
  /\ res' = Reply("userSubmit", 200)
  /\ slot' = Finish(r)
  /\ UNCHANGED <<items, charity>>

\* ------------------------------------------------------------------ poll
\* load the claim; it must carry a correlation id; POST the poll envelope
PollLoadClaim(r, c) ==
  /\ UNCHANGED <<connVars, xmlVars, auxVars>>
  /\ CanStart(r)
  /\ UNCHANGED <<claims, items, charity>>
  /\ IF claims[c].hmrc_correlation_id = ""
     THEN /\ res' = Reply("poll", 400)
          /\ UNCHANGED slot
     ELSE /\ slot' = Begin(r, "poll", "pollReceive", c)
          /\ UNCHANGED res

\* save the poll response as the claim's message and raw text; the body is
\* not parsed and the status is not written
PollStore(r, outcome, reply) ==
  /\ UNCHANGED <<connVars, xmlVars, auxVars>>
  /\ slot[r].op = "poll" /\ slot[r].pc = "pollReceive"
  /\ slot' = Finish(r)
  /\ UNCHANGED <<items, charity>>
  /\ IF ~httpPostXml(outcome).returns
     THEN /\ res' = Reply("poll", 403)
          /\ UNCHANGED claims
     ELSE /\ claims' = SetMessage(slot[r].claim,
                 IF httpPostXml(outcome).ok THEN "poll_ok" ELSE "poll_failed")
          /\ res' = Reply("poll", 200)

\* ------------------------------------------------ gateway connections
ActiveConns == {k \in ConnIds : conns[k].exists /\ conns[k].active}
FreeConnIds == {k \in ConnIds : ~conns[k].exists}

\* POST save-connection (charity user, or operator for a charity): refuse
\* empty credentials; else update active = false on every active
\* connection of the charity ...
SaveDeactivate(s, valid) ==
  /\ UNCHANGED <<xmlVars, auxVars>>
  /\ saves[s].pc = "idle"
  /\ UNCHANGED <<claims, items, charity, slot, res, hmrc_connection_id>>
  /\ IF ~valid
     THEN UNCHANGED <<conns, saves>>
     ELSE /\ conns' = [k \in ConnIds |-> [conns[k] EXCEPT !.active = FALSE]]
          /\ saves' = [saves EXCEPT ![s].pc = "insert"]

\* ... insert the new connection with active = true; an insert error
\* answers 500 and the request ends ...
SaveInsert(s, ok) ==
  /\ UNCHANGED <<xmlVars, auxVars>>
  /\ saves[s].pc = "insert"
  /\ UNCHANGED <<claims, items, charity, slot, res, hmrc_connection_id>>
  /\ IF ok /\ FreeConnIds # {}
     THEN LET id == CHOOSE k \in FreeConnIds : \A j \in FreeConnIds : k <= j IN
          /\ conns' = [conns EXCEPT ![id] = [exists |-> TRUE, active |-> TRUE]]
          /\ saves' = [saves EXCEPT ![s] = [pc |-> "point", created |-> id]]
     ELSE /\ saves' = [saves EXCEPT ![s] = SaveIdle]
          /\ UNCHANGED conns

\* ... point the charity at the created connection
SavePoint(s) ==
  /\ UNCHANGED <<xmlVars, auxVars>>
  /\ saves[s].pc = "point"
  /\ hmrc_connection_id' = saves[s].created
  /\ saves' = [saves EXCEPT ![s] = SaveIdle]
  /\ UNCHANGED <<claims, items, charity, slot, res, conns>>

\* submit.ts: read the charity's hmrc_connection_id (null: 400), then the
\* connection of that id with active = true (no such row: 400)
LoadActiveConnection ==
  IF hmrc_connection_id = 0 THEN "no connection set"
  ELSE IF hmrc_connection_id \in ActiveConns THEN "found"
  ELSE "not found or not active"

\* ------------------------------------------ envelope builder, as text
\* Text is a sequence of symbols: one symbol per character of a field
\* value, one per literal piece of markup of the template ("<Fore>"), one
\* per placeholder name.  A placeholder {{KEY}} is the five symbols
\* "{", "{", KEY, "}", "}".
Token(k) == <<"{", "{", k, "}", "}">>

\* one pass of String.replace(/ch/g, rep)
RECURSIVE ReplaceChar(_, _, _)
ReplaceChar(s, ch, rep) ==
  IF s = <<>> THEN <<>>
  ELSE (IF Head(s) = ch THEN rep ELSE <<Head(s)>>) \o ReplaceChar(Tail(s), ch, rep)

\* (an escape that forgets the apostrophe)
xmlEscapeNoApos(v) ==
  ReplaceChar(ReplaceChar(ReplaceChar(ReplaceChar(v,
    "&", <<"&", "amp;">>), "<", <<"&", "lt;">>), ">", <<"&", "gt;">>),
    "\"", <<"&", "quot;">>)
\* xmlEscape: & first, then < > " '
xmlEscape(v) ==
  ReplaceChar(ReplaceChar(ReplaceChar(ReplaceChar(ReplaceChar(v,
    "&", <<"&", "amp;">>), "<", <<"&", "lt;">>), ">", <<"&", "gt;">>),
    "\"", <<"&", "quot;">>), "'", <<"&", "apos;">>)

\* String.prototype.trim
RECURSIVE Trim(_)
Trim(s) ==
  IF s = <<>> THEN <<>>
  ELSE IF Head(s) = " " THEN Trim(Tail(s))
  ELSE IF s[Len(s)] = " " THEN Trim(SubSeq(s, 1, Len(s) - 1))
  ELSE s

toUpperCase(s) ==
  [i \in 1..Len(s) |->
     CASE s[i] = "a" -> "A" [] s[i] = "n" -> "N" [] s[i] = "u" -> "U" [] s[i] = "l" -> "L"
       [] OTHER -> s[i]]

\* normalizePostcode: trim + uppercase
normalizePostcode(postcode) == toUpperCase(Trim(postcode))

\* the stored donation_date values: two dates, a value shaped like a date
\* that is none (month 13), a value Date cannot parse, and none
DateInputs == {"2024-05-01", "2024-06-15", "2024-13-45", "not a date", ""}
\* /^\d{4}-\d{2}-\d{2}$/
IsoShaped(d) == d \in {"2024-05-01", "2024-06-15", "2024-13-45"}

\* normalizeDate: "" stays "", a value of the shape YYYY-MM-DD is returned
\* as it is, anything else goes through new Date(s) (NaN: "")
normalizeDate(d) ==
  IF d = "" THEN ""
  ELSE IF IsoShaped(d) THEN d
  ELSE ""

\* the order of the stored values under order("donation_date")
DateRank(d) ==
  CASE d = "2024-05-01" -> 1
    [] d = "2024-06-15" -> 2
    [] d = "2024-13-45" -> 3
    [] d = "not a date" -> 4
    [] OTHER -> 5

\* formatMoney: Number(n).toFixed(2), n held in pence
formatMoney(n) ==
  ToString(n \div 100) \o "." \o (IF n % 100 < 10 THEN "0" ELSE "") \o ToString(n % 100)

\* what select(...).eq("claim_id").order("donation_date") can return: the
\* claim's rows (by input position) in any order that ascends by date;
\* rows of equal date come in an order the query does not fix
OrderedSelects ==
  {p \in Permutations(1..Len(donors)) :
     \A i, j \in 1..Len(donors) :
        i < j => DateRank(donors[p[i]].date) <= DateRank(donors[p[j]].date)}

\* buildGadRowXml of the current revision and of 2026-01-26-v2: fields
\* trimmed, postcode normalized, everything escaped
buildGadRowXml(item) ==
  <<"<GAD>", "<Fore>">> \o xmlEscape(Trim(item.fore))
  \o <<"<Sur>">> \o xmlEscape(Trim(item.sur))
  \o <<"<House>">> \o xmlEscape(Trim(item.house))
  \o <<"<Postcode>">> \o xmlEscape(normalizePostcode(item.postcode))
  \o <<"<Date>">> \o xmlEscape(<<normalizeDate(item.date)>>)
  \o <<"<Total>">> \o xmlEscape(<<formatMoney(item.amount)>>)
  \o <<"</GAD>">>

\* buildGadRowXml of 2026-01-18-v3: fields escaped as stored
buildGadRowXmlV3(item) ==
  <<"<GAD>", "<Fore>">> \o xmlEscape(item.fore)
  \o <<"<Sur>">> \o xmlEscape(item.sur)
  \o <<"<House>">> \o xmlEscape(item.house)
  \o <<"<Postcode>">> \o xmlEscape(item.postcode)
  \o <<"<Date>">> \o xmlEscape(<<normalizeDate(item.date)>>)
  \o <<"<Total>">> \o xmlEscape(<<formatMoney(item.amount)>>)
  \o <<"</GAD>">>

RECURSIVE DonationRows(_, _, _)
DonationRows(rev, order, k) ==
  IF k > Len(order) THEN <<>>
  ELSE (IF rev = "v3" THEN buildGadRowXmlV3(donors[order[k]])
        ELSE buildGadRowXml(donors[order[k]]))
       \o DonationRows(rev, order, k + 1)

\* earliestDonationDate: the least normalized date of the shape
\* YYYY-MM-DD, or the fallback
earliestDonationDate(order, fallback) ==
  LET dates == {normalizeDate(donors[order[k]].date) : k \in 1..Len(order)}
      shaped == {d \in dates : IsoShaped(d)}
  IN IF shaped = {} THEN fallback
     ELSE CHOOSE d \in shaped : \A e \in shaped : DateRank(d) <= DateRank(e)

\* the first complaint of the validation loop about one row ("": none)
ItemError(item) ==
  IF Trim(item.fore) = <<>> THEN "First Name is required"
  ELSE IF Trim(item.sur) = <<>> THEN "Last Name is required"
  ELSE IF Trim(item.house) = <<>> THEN "Address is required"
  ELSE IF normalizePostcode(item.postcode) = <<>> THEN "Postcode is required"
  ELSE IF normalizeDate(item.date) = "" THEN "Donation Date is required (YYYY-MM-DD)"
  ELSE IF ~(item.amount > 0) THEN "Donation Amount must be > 0"
  ELSE ""

\* the position in the selected rows of the first row the loop throws on
FirstInvalid(order) ==
  LET bad == {k \in 1..Len(order) : ItemError(donors[order[k]]) # ""}
  IN IF bad = {} THEN 0 ELSE CHOOSE k \in bad : \A j \in bad : k <= j

\* out.split(token).join(v): every occurrence of the token, left to right
RECURSIVE SplitJoin(_, _, _, _)
SplitJoin(out, token, v, i) ==
  IF i > Len(out) THEN <<>>
  ELSE IF /\ out[i] = token[1]
          /\ i + Len(token) - 1 <= Len(out)
          /\ SubSeq(out, i, i + Len(token) - 1) = token
       THEN v \o SplitJoin(out, token, v, i + Len(token))
       ELSE <<out[i]>> \o SplitJoin(out, token, v, i + 1)

\* replaceAllPlaceholders: one split/join per entry of vars, in the order
\* of the entries
RECURSIVE replaceAllPlaceholders(_, _)
replaceAllPlaceholders(template, entries) ==
  IF entries = <<>> THEN template
  ELSE replaceAllPlaceholders(
         SplitJoin(template, Token(Head(entries)[1]), Head(entries)[2], 1),
         Tail(entries))

\* loadTemplateOrFallback: the built-in template, cut to the placeholders
\* whose values come from the claim, the charity, the mode and the clock
Template ==
  <<"<CorrelationID>">> \o Token("CORRELATION_ID")
  \o <<"<GatewayTimestamp>">> \o Token("GATEWAY_TIMESTAMP")
  \o <<"<SenderID>">> \o Token("SENDER_ID")
  \o <<"<Value>">> \o Token("AUTH_VALUE")
  \o <<"<Key>">> \o Token("CHARID")
  \o <<"<OrgName>">> \o Token("ORG_NAME")
  \o <<"<HMRCref>">> \o Token("HMRCREF")
  \o <<"<Repayment>">> \o Token("DONATION_ROWS")
  \o <<"<EarliestGAdate>">> \o Token("EARLIEST_GA_DATE")
  \o Token("OTHER_INC_BLOCK") \o <<"</Repayment>">>

\* the template file 2026-01-18-v3 reads (readTemplate): the same document
\* with the placeholders that revision fills
TemplateFile ==
  <<"<CorrelationID>">> \o Token("CORRELATION_ID")
  \o <<"<GatewayTimestamp>">> \o Token("GATEWAY_TIMESTAMP")
  \o <<"<SenderID>">> \o Token("SENDER_ID")
  \o <<"<Value>">> \o Token("AUTH_VALUE")
  \o <<"<Key>">> \o Token("CHARID")
  \o <<"<OrgName>">> \o Token("ORG_NAME")
  \o <<"<HMRCref>">> \o Token("HMRC_REF")
  \o <<"<Repayment>">> \o Token("DONATION_ROWS")
  \o <<"<EarliestGAdate>">> \o Token("EARLIEST_GA_DATE")
  \o <<"</Repayment>">>

\* xml.indexOf("{{"), counted from 1 (0: not found)
IndexOfBraces(xml) ==
  LET at == {i \in 1..(Len(xml) - 1) : xml[i] = "{" /\ xml[i + 1] = "{"}
  IN IF at = {} THEN 0 ELSE CHOOSE i \in at : \A j \in at : i <= j

SnippetBefore == 60
SnippetAfter == 140
\* xml.slice(Math.max(0, pos - 60), Math.min(xml.length, pos + 140))
Snippet(xml, pos) ==
  LET lo == IF pos - SnippetBefore > 1 THEN pos - SnippetBefore ELSE 1
      hi == IF pos - 1 + SnippetAfter < Len(xml) THEN pos - 1 + SnippetAfter ELSE Len(xml)
  IN SubSeq(xml, lo, hi)

Returned(xml) == [ok |-> TRUE, doc |-> xml, error |-> "", item |-> 0, snippet |-> <<>>]
Thrown(msg, item, snip) == [ok |-> FALSE, doc |-> <<>>, error |-> msg, item |-> item, snippet |-> snip]

\* (the builder's last step without its safety check)
SafetyCheckOff(xml) == Returned(xml)
\* the builder's last step: throw, with a snippet, if "{{" is left
SafetyCheck(xml) ==
  IF IndexOfBraces(xml) # 0
  THEN Thrown("XML template still has unreplaced placeholders", 0,
              Snippet(xml, IndexOfBraces(xml)))
  ELSE Returned(xml)

\* getSenderCreds (current revision): both env values set: those; else
\* the technical pack's test credentials in ETS, the sample ones otherwise
getSenderCreds(mode) ==
  IF config.creds = "env" THEN [senderId |-> EnvSenderId, authValue |-> EnvAuthValue]
  ELSE IF mode = "ETS" THEN [senderId |-> <<"323412300001">>, authValue |-> <<"testing1">>]
  ELSE [senderId |-> <<"GIFTAIDCHAR">>, authValue |-> <<"testing2">>]

\* charities.name || "My Organisation"
OrgNameOrDefault == IF orgName = <<>> THEN <<"My Organisation">> ELSE orgName

\* generateHmrcGiftAidXml, current revision (modes ETS / LIVE / LTS), for
\* the claim c1 with a valid period, given the rows the select returned
\* and the clock
GenerateModes(mode, order, now) ==
  LET rawCharid == IF charity.charity_number # "" THEN charity.charity_number
                   ELSE charity.charity_id
      charid == chooseCharIdForMode(mode, rawCharid)
      creds == getSenderCreds(mode)
      bad == FirstInvalid(order)
      correlationId == <<>>
      gatewayTimestamp == IF mode = "LTS" THEN <<now>> ELSE <<>>
  IN IF charid = "" THEN Thrown("Missing Charity Number", 0, <<>>)
     ELSE IF Len(order) = 0 THEN Thrown("No donation items found for this claim", 0, <<>>)
     ELSE IF bad # 0 THEN Thrown(ItemError(donors[order[bad]]), order[bad], <<>>)
     ELSE SafetyCheck(replaceAllPlaceholders(Template, <<
            <<"CORRELATION_ID", xmlEscape(correlationId)>>,
            <<"GATEWAY_TIMESTAMP", xmlEscape(gatewayTimestamp)>>,
            <<"SENDER_ID", xmlEscape(creds.senderId)>>,
            <<"AUTH_VALUE", xmlEscape(creds.authValue)>>,
            <<"CHARID", xmlEscape(<<charid>>)>>,
            <<"ORG_NAME", xmlEscape(OrgNameOrDefault)>>,
            <<"HMRCREF", xmlEscape(<<charid>>)>>,
            <<"DONATION_ROWS", DonationRows("modes", order, 1)>>,
            <<"EARLIEST_GA_DATE", xmlEscape(<<earliestDonationDate(order, PeriodStart)>>)>>,
            <<"OTHER_INC_BLOCK", <<>>>> >>))

\* generateHmrcGiftAidXml, revision 2026-01-26-v2: the same loads and
\* validation; the header carries the claim id and the clock in every mode
GenerateV2(order, now) ==
  LET charid == IF charity.charity_number # "" THEN charity.charity_number
                ELSE charity.charity_id
      bad == FirstInvalid(order)
  IN IF charid = "" THEN Thrown("Charity is missing Registered Charity Number", 0, <<>>)
     ELSE IF Len(order) = 0 THEN Thrown("No donation items found for this claim", 0, <<>>)
     ELSE IF bad # 0 THEN Thrown(ItemError(donors[order[bad]]), order[bad], <<>>)
     ELSE SafetyCheck(replaceAllPlaceholders(Template, <<
            <<"CORRELATION_ID", xmlEscape(<<"c1">>)>>,
            <<"GATEWAY_TIMESTAMP", xmlEscape(<<now>>)>>,
            <<"SENDER_ID", xmlEscape(IF config.creds = "env" THEN EnvSenderId ELSE <<"GIFTAIDCHAR">>)>>,
            <<"AUTH_VALUE", xmlEscape(IF config.creds = "env" THEN EnvAuthValue ELSE <<"testing2">>)>>,
            <<"CHARID", xmlEscape(<<charid>>)>>,
            <<"ORG_NAME", xmlEscape(OrgNameOrDefault)>>,
            <<"HMRCREF", xmlEscape(<<charid>>)>>,
            <<"DONATION_ROWS", DonationRows("v2", order, 1)>>,
            <<"EARLIEST_GA_DATE", xmlEscape(<<earliestDonationDate(order, PeriodStart)>>)>>,
            <<"OTHER_INC_BLOCK", <<>>>> >>))

\* generateHmrcGiftAidXml, revision 2026-01-18-v3: charity_id is the
\* CHARID; the rows are rendered as they were stored, with no check of
\* their count or their fields
GenerateV3(order, now) ==
  IF charity.charity_id = "" THEN Thrown("Charity is missing charity_id", 0, <<>>)
  ELSE SafetyCheck(replaceAllPlaceholders(TemplateFile, <<
         <<"CORRELATION_ID", xmlEscape(<<"c1">>)>>,
         <<"GATEWAY_TIMESTAMP", xmlEscape(<<now>>)>>,
         <<"SENDER_ID", xmlEscape(IF config.creds = "env" THEN EnvSenderId ELSE <<"GIFTAIDCHAR">>)>>,
         <<"AUTH_VALUE", xmlEscape(IF config.creds = "env" THEN EnvAuthValue ELSE <<"REPLACE_ME">>)>>,
         <<"CHARID", xmlEscape(<<charity.charity_id>>)>>,
         <<"ORG_NAME", xmlEscape(orgName)>>,
         <<"HMRC_REF", xmlEscape(<<charity.charity_id>>)>>,
         <<"DONATION_ROWS", DonationRows("v3", order, 1)>>,
         <<"EARLIEST_GA_DATE", xmlEscape(<<earliestDonationDate(order, PeriodEnd)>>)>> >>))

\* a call of generateHmrcGiftAidXml(c1) under the deployed revision and
\* HMRC_XML_MODE: the select returns the rows, the clock is read, the
\* document or the error is the result.  Two calls are kept.
GenerateXml(order, now) ==
  /\ builtBefore = NotBuilt
  /\ built' = (CASE config.rev = "modes" -> GenerateModes(config.mode, order, now)
                 [] config.rev = "v2" -> GenerateV2(order, now)
                 [] config.rev = "v3" -> GenerateV3(order, now))
  /\ builtBefore' = built
  /\ UNCHANGED <<claims, items, charity, slot, res, connVars, donors, orgName, config, auxVars>>

\* ------------------------------------------------ credential encryption
\* A character is a string; a byte is a record: v the value, and for a
\* byte AES-GCM produced, the key, the iv and the position it was produced
\* under (a cipher byte opens only under the same three).  flip marks a
\* byte whose bits were changed in storage.
PlainByte(v) == [v |-> v, k |-> "", iv |-> "", i |-> 0, flip |-> FALSE]
Garbage == PlainByte("?")

\* a text that names a byte sequence: equal only for equal sequences
RECURSIVE ByteString(_)
ByteString(bytes) ==
  IF bytes = <<>> THEN ""
  ELSE (IF Head(bytes).flip THEN "~" ELSE "") \o Head(bytes).v \o "/" \o Head(bytes).k
       \o "/" \o Head(bytes).iv \o "/" \o ToString(Head(bytes).i) \o ";"
       \o ByteString(Tail(bytes))

\* getKey: KEY missing or shorter than 16 characters throws; else the
\* SHA-256 digest of KEY ("": thrown)
KeyMinLength == 16
getKey == IF Len(KEY) < KeyMinLength THEN "" ELSE "sha256(" \o KEY \o ")"

\* (an escape of the quote alone)
RECURSIVE JsonEscapeQuoteOnly(_)
JsonEscapeQuoteOnly(s) ==
  IF s = <<>> THEN <<>>
  ELSE (IF Head(s) = "\"" THEN <<"\\", Head(s)>> ELSE <<Head(s)>>)
       \o JsonEscapeQuoteOnly(Tail(s))
\* JSON.stringify of a string value: quoted, with " and \ escaped
RECURSIVE JsonEscape(_)
JsonEscape(s) ==
  IF s = <<>> THEN <<>>
  ELSE (IF Head(s) \in {"\"", "\\"} THEN <<"\\", Head(s)>> ELSE <<Head(s)>>)
       \o JsonEscape(Tail(s))
JsonString(s) == <<"\"">> \o JsonEscape(s) \o <<"\"">>

CredKeys == <<"gatewayUserId", "gatewayPassword", "updatedAt">>
\* JSON.stringify(obj) of the object save-connection builds: its three
\* properties in the order they were written
RECURSIVE JsonMembers(_, _)
JsonMembers(obj, n) ==
  IF n > Len(CredKeys) THEN <<>>
  ELSE (IF n > 1 THEN <<",">> ELSE <<>>)
       \o <<"\"", CredKeys[n], "\"", ":">> \o JsonString(obj[CredKeys[n]])
       \o JsonMembers(obj, n + 1)
JsonStringify(obj) == <<"{">> \o JsonMembers(obj, 1) \o <<"}">>

\* Buffer.from(text, "utf8"): one byte per ASCII character, two for U+00E9 (E9)
RECURSIVE Utf8Encode(_)
Utf8Encode(text) ==
  IF text = <<>> THEN <<>>
  ELSE (IF Head(text) = "E9" THEN <<PlainByte("C3"), PlainByte("A9")>>
        ELSE <<PlainByte(Head(text))>>)
       \o Utf8Encode(Tail(text))

\* buffer.toString("utf8"): a byte sequence that is no UTF-8 decodes to
\* the replacement character
RECURSIVE Utf8Decode(_)
Utf8Decode(bytes) ==
  IF bytes = <<>> THEN <<>>
  ELSE IF Head(bytes) = PlainByte("C3") /\ Len(bytes) > 1 /\ bytes[2] = PlainByte("A9")
       THEN <<"E9">> \o Utf8Decode(Tail(Tail(bytes)))
  ELSE IF Head(bytes).v \in {"C3", "A9", "?"} \/ Head(bytes).flip
       THEN <<"FFFD">> \o Utf8Decode(Tail(bytes))
  ELSE <<Head(bytes).v>> \o Utf8Decode(Tail(bytes))

ParseFail == [ok |-> FALSE, value |-> NoObj]

RECURSIVE Concat(_)
Concat(s) == IF s = <<>> THEN "" ELSE Head(s) \o Concat(Tail(s))

\* the characters of the JSON string whose opening quote stands before
\* position i, and the position after its closing quote
RECURSIVE ScanString(_, _, _)
ScanString(text, i, acc) ==
  IF i > Len(text) THEN [ok |-> FALSE, val |-> acc, next |-> i]
  ELSE IF text[i] = "\"" THEN [ok |-> TRUE, val |-> acc, next |-> i + 1]
  ELSE IF text[i] = "\\"
       THEN (IF i + 1 <= Len(text) /\ text[i + 1] \in {"\"", "\\"}
             THEN ScanString(text, i + 2, Append(acc, text[i + 1]))
             ELSE [ok |-> FALSE, val |-> acc, next |-> i])
  ELSE ScanString(text, i + 1, Append(acc, text[i]))

\* the members "key":"value" of an object from position i to its brace
RECURSIVE ParseMembers(_, _, _)
ParseMembers(text, i, obj) ==
  IF i > Len(text) \/ text[i] # "\"" THEN ParseFail
  ELSE LET key == ScanString(text, i + 1, <<>>) IN
       IF \/ ~key.ok
          \/ key.next + 1 > Len(text)
          \/ text[key.next] # ":"
          \/ text[key.next + 1] # "\""
       THEN ParseFail
       ELSE LET val == ScanString(text, key.next + 2, <<>>) IN
            IF ~val.ok \/ val.next > Len(text) THEN ParseFail
            ELSE LET more == (Concat(key.val) :> val.val) @@ obj IN
                 IF text[val.next] = "," THEN ParseMembers(text, val.next + 1, more)
                 ELSE IF text[val.next] = "}" /\ val.next = Len(text)
                      THEN [ok |-> TRUE, value |-> more]
                 ELSE ParseFail

\* JSON.parse of the text of an object with string members (SyntaxError:
\* not ok)
JsonParse(text) ==
  IF Len(text) < 2 \/ text[1] # "{" THEN ParseFail
  ELSE IF Len(text) = 2 THEN (IF text[2] = "}" THEN [ok |-> TRUE, value |-> NoObj] ELSE ParseFail)
  ELSE ParseMembers(text, 2, NoObj)

\* characters of the stored payload: a base64 character carries the byte
\* it encodes; "." separates the parts; " " is whitespace
B64(b) == [c |-> "b64", b |-> b]
Dot == [c |-> ".", b |-> Garbage]
Space == [c |-> " ", b |-> Garbage]

\* buffer.toString("base64")
toBase64(bytes) == [i \in 1..Len(bytes) |-> B64(bytes[i])]
\* Buffer.from(text, "base64"): characters outside the alphabet (such as
\* whitespace) are skipped
RECURSIVE fromBase64(_)
fromBase64(text) ==
  IF text = <<>> THEN <<>>
  ELSE (IF Head(text).c = "b64" THEN <<Head(text).b>> ELSE <<>>) \o fromBase64(Tail(text))

\* parts.join(".")
RECURSIVE Join(_)
Join(parts) ==
  IF Len(parts) = 0 THEN <<>>
  ELSE IF Len(parts) = 1 THEN parts[1]
  ELSE parts[1] \o <<Dot>> \o Join(Tail(parts))

\* payload.split(".")
RECURSIVE Split(_, _, _)
Split(text, i, cur) ==
  IF i > Len(text) THEN <<cur>>
  ELSE IF text[i] = Dot THEN <<cur>> \o Split(text, i + 1, <<>>)
  ELSE Split(text, i + 1, Append(cur, text[i]))

\* AES-256-GCM: the cipher byte of a plaintext byte under key, iv and
\* position (counter mode); the 16-byte authentication tag of key, iv
\* and ciphertext
IvLength == 12
TagLength == 16
CtrByte(key, ivn, i, b) == [v |-> b.v, k |-> key, iv |-> ivn, i |-> i, flip |-> b.flip]
CtrInverse(key, ivn, i, c) ==
  IF c.k = key /\ c.iv = ivn /\ c.i = i /\ ~c.flip THEN PlainByte(c.v) ELSE Garbage
AuthTag(key, ivn, data) ==
  LET mac == "tag(" \o ByteString(data) \o ")"
  IN [j \in 1..TagLength |-> [v |-> mac, k |-> key, iv |-> ivn, i |-> j, flip |-> FALSE]]
\* the tag lengths decipher.setAuthTag takes when createDecipheriv was
\* given no authTagLength
ValidTagLengths == {4, 8, 12, 13, 14, 15, 16}

Sealed(text) == [ok |-> TRUE, payload |-> text, error |-> ""]
SealThrown(msg) == [ok |-> FALSE, payload |-> <<>>, error |-> msg]
Opened(obj) == [ok |-> TRUE, value |-> obj, error |-> ""]
OpenThrown(msg) == [ok |-> FALSE, value |-> NoObj, error |-> msg]

\* encryptJson(obj) with the 12 random bytes iv
encryptJson(obj, iv) ==
  LET key == getKey
      plaintext == Utf8Encode(JsonStringify(obj))
      encrypted == [i \in 1..Len(plaintext) |-> CtrByte(key, ByteString(iv), i, plaintext[i])]
      tag == AuthTag(key, ByteString(iv), encrypted)
  IN IF key = "" THEN SealThrown("HMRC_CRED_ENCRYPTION_KEY is missing or too short")
     ELSE Sealed(Join(<<toBase64(iv), toBase64(tag), toBase64(encrypted)>>))

\* decryptJson(payload)
decryptJson(payload) ==
  LET key == getKey
      parts == Split(payload, 1, <<>>)
      iv == fromBase64(parts[1])
      tag == fromBase64(parts[2])
      data == fromBase64(parts[3])
      decrypted == [i \in 1..Len(data) |-> CtrInverse(key, ByteString(iv), i, data[i])]
      parsed == JsonParse(Utf8Decode(decrypted))
  IN IF key = "" THEN OpenThrown("HMRC_CRED_ENCRYPTION_KEY is missing or too short")
     ELSE IF Len(parts) # 3 THEN OpenThrown("Invalid encrypted payload format")
     ELSE IF iv = <<>> THEN OpenThrown("Invalid initialization vector")
     ELSE IF Len(tag) \notin ValidTagLengths THEN OpenThrown("Invalid authentication tag length")
     ELSE IF SubSeq(AuthTag(key, ByteString(iv), data), 1, Len(tag)) # tag
          THEN OpenThrown("Unsupported state or unable to authenticate data")
     ELSE IF ~parsed.ok THEN OpenThrown("SyntaxError")
     ELSE Opened(parsed.value)

\* the credential objects save-connection builds: trimmed, non-empty user
\* id and password (plain, with " and \, with a non-ASCII character and a
\* dot) and the time of the save
CredObjects ==
  {[gatewayUserId |-> <<"u">>, gatewayPassword |-> p, updatedAt |-> <<"t">>] :
     p \in { <<"p">>, <<"p", "\"", "\\">>, <<"E9", ".">> }}
\* crypto.randomBytes(12)
RandomIvs == {[j \in 1..IvLength |-> PlainByte(x)] : x \in {"a", "b"}}

\* save-connection: encryptJson of the credential object; the payload is
\* stored as credentials_encrypted
SealCredentials(obj, iv) ==
  /\ sealed = NotSealed
  /\ credObj' = obj
  /\ sealed' = encryptJson(obj, iv)
  /\ credentials_encrypted' = encryptJson(obj, iv).payload
  /\ UNCHANGED <<KEY, opened>>
  /\ UNCHANGED <<claims, items, charity, slot, res, connVars, xmlVars, entryVars>>

\* the stored payload with one character changed to another base64
\* character, removed, or with a character or whitespace put in; or with
\* its middle part cut to n characters
FlipAt(text, p) == [text EXCEPT ![p].b.flip = ~text[p].b.flip]
DeleteAt(text, p) == SubSeq(text, 1, p - 1) \o SubSeq(text, p + 1, Len(text))
InsertAt(text, p, ch) == SubSeq(text, 1, p - 1) \o <<ch>> \o SubSeq(text, p, Len(text))
CutTag(text, n) ==
  LET parts == Split(text, 1, <<>>)
  IN Join(<<parts[1], SubSeq(parts[2], 1, n), parts[3]>>)
Tamperings(text) ==
  IF text = <<>> THEN {}
  ELSE {FlipAt(text, p) : p \in {q \in 1..Len(text) : text[q].c = "b64"}}
       \cup {DeleteAt(text, p) : p \in 1..Len(text)}
       \cup {InsertAt(text, p, ch) : p \in 1..(Len(text) + 1), ch \in {Dot, Space}}
       \cup {CutTag(text, n) : n \in 0..(TagLength - 1)}

\* someone with access to the datastore rewrites the stored payload
Tamper(text) ==
  /\ sealed.ok /\ credentials_encrypted = sealed.payload /\ opened = NotOpened
  /\ credentials_encrypted' = text
  /\ UNCHANGED <<KEY, credObj, sealed, opened>>
  /\ UNCHANGED <<claims, items, charity, slot, res, connVars, xmlVars, entryVars>>

\* submit: decryptJson of the stored payload
OpenCredentials ==
  /\ sealed.ok /\ opened = NotOpened
  /\ opened' = decryptJson(credentials_encrypted)
  /\ UNCHANGED <<KEY, credObj, sealed, credentials_encrypted>>
  /\ UNCHANGED <<claims, items, charity, slot, res, connVars, xmlVars, entryVars>>

\* ------------------------------------------- charity identifiers, as text
UpperLetters == {"A", "X", "R", "N", "U", "L"}
LowerLetters == {"a", "n", "u", "l"}
Digits == {"1", "2"}
toLowerCase(s) ==
  [i \in 1..Len(s) |->
     CASE s[i] = "A" -> "a" [] s[i] = "N" -> "n" [] s[i] = "U" -> "u" [] s[i] = "L" -> "l"
       [] OTHER -> s[i]]

MinCharIdLength == 3
MaxCharIdLength == 30
\* identifier values a request body can carry: none, a good one, padded,
\* lower case, too short, with a hyphen, with a symbol, and a text of 31
\* characters
IdInputs ==
  { <<>>, <<"X", "R", "1">>, <<" ", "X", "R", "1", " ">>, <<"a", "a", "1">>,
    <<"X", "R">>, <<"X", "-", "1">>, <<"X", "!", "1">>,
    [i \in 1..(MaxCharIdLength + 1) |-> "X"] }

\* normalizeRequiredString / normalizeOptionalString: trimmed; blank and
\* the words undefined and null count as missing (<<>>)
normalizeRequiredString(v) ==
  LET s == Trim(v)
  IN IF toLowerCase(s) \in {<<>>, <<"n", "u", "l", "l">>,
                            <<"u", "n", "d", "e", "f", "i", "n", "e", "d">>}
     THEN <<>> ELSE s
normalizeOptionalString(v) == normalizeRequiredString(v)

\* normalizeCharId: trim + upper case
normalizeCharId(v) == toUpperCase(Trim(v))

\* validateCharId of update-hmrc-charid: required, 3..30 characters of
\* A-Z, 0-9 and hyphen ("": valid)
validateCharId(charId) ==
  IF charId = <<>> THEN "HMRC CHARID is required"
  ELSE IF Len(charId) < MinCharIdLength THEN "HMRC CHARID looks too short"
  ELSE IF Len(charId) > MaxCharIdLength THEN "HMRC CHARID looks too long"
  ELSE IF \E i \in 1..Len(charId) : charId[i] \notin UpperLetters \cup Digits \cup {"-"}
       THEN "HMRC CHARID must be letters/numbers/hyphen only"
  ELSE ""

\* validateCharId of the second setup revision: A-Z and 0-9 only
validateCharIdAtSetup(charId) ==
  IF charId = <<>> THEN "Charity number is required"
  ELSE IF \E i \in 1..Len(charId) : charId[i] \notin UpperLetters \cup Digits
       THEN "Charity number must be letters/numbers only (no spaces or symbols)."
  ELSE IF Len(charId) < MinCharIdLength THEN "Charity number looks too short"
  ELSE IF Len(charId) > MaxCharIdLength THEN "Charity number looks too long"
  ELSE ""

FreeCharityRows == {k \in CharityRows : ~charities[k].exists}
\* insert into charities
InsertCharity(id, number) ==
  LET k == CHOOSE j \in FreeCharityRows : \A m \in FreeCharityRows : j <= m
  IN [charities EXCEPT ![k] = [exists |-> TRUE, charity_id |-> id, charity_number |-> number]]
\* select ... eq(column, value) finds a row
HasCharity(column, value) ==
  \E k \in CharityRows : charities[k].exists /\ charities[k][column] = value

Answer(op, code, msg) == res' = Reply(op, code) /\ errorText' = msg

\* POST charity setup, first revision (a user with no charity yet):
\* charity_id is required; a charity with that charity_id, or else with
\* that charity_number, is reused; otherwise one is inserted
SetupCharity(idInput, numberInput) ==
  LET charity_id == normalizeRequiredString(idInput)
      charity_number == normalizeOptionalString(numberInput)
  IN /\ UNCHANGED <<claims, items, charity, slot, connVars, xmlVars, vaultVars, written>>
     /\ IF charity_id = <<>>
        THEN Answer("setup", 400, "Charity ID is required") /\ UNCHANGED charities
        ELSE IF \/ HasCharity("charity_id", charity_id)
                \/ (charity_number # <<>> /\ HasCharity("charity_number", charity_number))
        THEN Answer("setup", 200, "") /\ UNCHANGED charities
        ELSE /\ FreeCharityRows # {}
             /\ charities' = InsertCharity(charity_id, charity_number)
             /\ Answer("setup", 200, "")

\* POST charity setup, second revision: charity_number is the CHARID,
\* upper-cased and validated, stored in both columns
SetupCharityCharId(numberInput) ==
  LET hmrc_charid == toUpperCase(normalizeRequiredString(numberInput))
  IN /\ UNCHANGED <<claims, items, charity, slot, connVars, xmlVars, vaultVars, written>>
     /\ IF validateCharIdAtSetup(hmrc_charid) # ""
        THEN Answer("setup2", 400, validateCharIdAtSetup(hmrc_charid)) /\ UNCHANGED charities
        ELSE IF HasCharity("charity_id", hmrc_charid)
        THEN Answer("setup2", 200, "") /\ UNCHANGED charities
        ELSE /\ FreeCharityRows # {}
             /\ charities' = InsertCharity(hmrc_charid, hmrc_charid)
             /\ Answer("setup2", 200, "")

\* POST charity setup, third revision: charity_number is optional and the
\* only identifier; a charity with that number is reused
SetupCharityOptional(numberInput) ==
  LET charity_number == normalizeOptionalString(numberInput)
  IN /\ UNCHANGED <<claims, items, charity, slot, connVars, xmlVars, vaultVars, written>>
     /\ IF charity_number # <<>> /\ HasCharity("charity_number", charity_number)
        THEN Answer("setup3", 200, "") /\ UNCHANGED charities
        ELSE /\ FreeCharityRows # {}
             /\ charities' = InsertCharity(<<>>, charity_number)
             /\ Answer("setup3", 200, "")

\* POST update-hmrc-charid (operator): normalize, validate, update
\* charity_id of the row
UpdateHmrcCharId(k, input) ==
  LET hmrcCharId == normalizeCharId(input)
  IN /\ UNCHANGED <<claims, items, charity, slot, connVars, xmlVars, vaultVars, written>>
     /\ IF validateCharId(hmrcCharId) # ""
        THEN Answer("charid", 400, validateCharId(hmrcCharId)) /\ UNCHANGED charities
        ELSE IF ~charities[k].exists
        THEN Answer("charid", 500, "no rows") /\ UNCHANGED charities
        ELSE /\ charities' = [charities EXCEPT ![k].charity_id = hmrcCharId]
             /\ Answer("charid", 200, "")

\* POST update charity number (operator): trimmed, letters and digits of
\* either case, not in use by another charity; update charity_number
UpdateCharityNumber(k, input) ==
  LET charityNumber == Trim(input)
  IN /\ UNCHANGED <<claims, items, charity, slot, connVars, xmlVars, vaultVars, written>>
     /\ IF charityNumber = <<>>
        THEN Answer("number", 400, "charityNumber is required") /\ UNCHANGED charities
        ELSE IF \E i \in 1..Len(charityNumber) :
                   charityNumber[i] \notin UpperLetters \cup LowerLetters \cup Digits
        THEN Answer("number", 400, "Charity number must be letters/numbers only (no spaces).")
             /\ UNCHANGED charities
        ELSE IF \E j \in CharityRows \ {k} :
                   charities[j].exists /\ charities[j].charity_number = charityNumber
        THEN Answer("number", 400, "That charity number is already in use by another charity.")
             /\ UNCHANGED charities
        ELSE IF ~charities[k].exists
        THEN Answer("number", 500, "no rows") /\ UNCHANGED charities
        ELSE /\ charities' = [charities EXCEPT ![k].charity_number = charityNumber]
             /\ Answer("number", 200, "")

\* ------------------------------------------- donation entry handlers
\* The handlers that write claim_items, with the date and the amount of
\* the request as they arrive; the claim is draft and belongs to the
\* caller, the donor's names, address and postcode are given.
MaxWritten == 2
EntryDates == {"2024-05-01", "2024-13-45", "not a date", ""}
\* a positive amount, zero and a negative one, in pence
EntryAmounts == {1000, 0, -500}
EntryRows == [date : EntryDates, amount : EntryAmounts]

\* isIsoDate: /^\d{4}-\d{2}-\d{2}$/
isIsoDate(d) == IsoShaped(d)
\* !value of a body field: true of the text "" and of the number 0
FalsyText(v) == v = ""
FalsyNumber(v) == v = 0

Row(op, d, a) == [op |-> op, date |-> d, amount |-> a]

Rejected(op, code, msg) ==
  /\ res' = Reply(op, code)
  /\ errorText' = msg
  /\ UNCHANGED written

Inserted(op, rows) ==
  /\ Len(written) + Len(rows) <= MaxWritten
  /\ written' = written \o rows
  /\ res' = Reply(op, 200)
  /\ errorText' = ""

\* POST admin add-item, first revision
AddItem(d, a) ==
  /\ UNCHANGED <<claims, items, charity, slot, connVars, xmlVars, vaultVars, charities>>
  /\ IF ~isIsoDate(d)
     THEN Rejected("add", 400, "Donation Date must be YYYY-MM-DD")
     ELSE IF ~ValidAmount(a)
     THEN Rejected("add", 400, "Donation Amount must be a positive number")
     ELSE Inserted("add", <<Row("add", d, a)>>)

\* POST admin add-item, later revision: the date only has to be given
AddItemDateRequired(d, a) ==
  /\ UNCHANGED <<claims, items, charity, slot, connVars, xmlVars, vaultVars, charities>>
  /\ IF d = ""
     THEN Rejected("addLater", 400, "Donation Date is required")
     ELSE IF ~ValidAmount(a)
     THEN Rejected("addLater", 400, "Donation Amount must be a positive number")
     ELSE Inserted("addLater", <<Row("addLater", d, a)>>)

\* POST admin add-item as first written: donationAmount == null is the
\* only test of the amount, and every amount here is a number
AddItemAmountGiven(d, a) ==
  /\ UNCHANGED <<claims, items, charity, slot, connVars, xmlVars, vaultVars, charities>>
  /\ IF FalsyText(d)
     THEN Rejected("addFirst", 400, "Missing required fields")
     ELSE Inserted("addFirst", <<Row("addFirst", d, a)>>)

\* POST claims/create (the charity user's add): !donationDate and
\* !donationAmount, then the insert of the values as they came
CreateItem(d, a) ==
  /\ UNCHANGED <<claims, items, charity, slot, connVars, xmlVars, vaultVars, charities>>
  /\ IF FalsyText(d) \/ FalsyNumber(a)
     THEN Rejected("create", 400, "Missing required fields")
     ELSE Inserted("create", <<Row("create", d, a)>>)

\* POST admin update-item: the row k is rewritten
EditItem(k, d, a) ==
  /\ UNCHANGED <<claims, items, charity, slot, connVars, xmlVars, vaultVars, charities>>
  /\ k \in 1..Len(written)
  /\ IF FalsyText(d)
     THEN Rejected("update", 400, "donorName, donorPostcode, donationDate are required")
     ELSE IF ~ValidAmount(a)
     THEN Rejected("update", 400, "donationAmount must be a positive number")
     ELSE /\ written' = [written EXCEPT ![k] = Row("update", d, a)]
          /\ res' = Reply("update", 200)
          /\ errorText' = ""

\* the rows of an import that pass its per-row tests
RECURSIVE ImportValid(_)
ImportValid(rows) ==
  IF rows = <<>> THEN <<>>
  ELSE LET r == Head(rows) IN
       IF isIsoDate(r.date) /\ ValidAmount(r.amount)
       THEN <<Row("import", r.date, r.amount)>> \o ImportValid(Tail(rows))
       ELSE ImportValid(Tail(rows))

\* POST admin import-csv: the rows failing a test are listed in errors[],
\* the others are inserted, and the answer is 200 either way
ImportRows(rows) ==
  /\ UNCHANGED <<claims, items, charity, slot, connVars, xmlVars, vaultVars, charities>>
  /\ Inserted("import", ImportValid(rows))

\* ======================================================= the claims
SubmitOps == {"submit", "isv1", "isv2", "userSubmit"}
\* this step POSTs an envelope for a request of slot r
Posts(r) == AwaitingGateway(r)' /\ ~AwaitingGateway(r)
\* this step is taken by a handler whose name is in ops
StepOf(r, ops) ==
  \/ slot[r].op \in ops
  \/ slot'[r].op \in ops
  \/ (res'.op \in ops /\ res' # res)

RECURSIVE SumOver(_)
SumOver(S) ==
  IF S = {} THEN 0
  ELSE LET i == CHOOSE j \in S : TRUE IN items[i].amount + SumOver(S \ {i})

\* C1: an update-item or delete-item request on a record whose claim is
\* ready or submitted is answered with an error and leaves claim_items
\* as it was.
C1_FrozenEditDeleteRejected ==
  [][\A i \in ItemIds :
       ( /\ items[i].claim # "none"
         /\ claims[items[i].claim].status \in {"ready", "submitted"}
         /\ ((\E a \in InputAmounts : UpdateItem(i, a)) \/ DeleteItem(i)) )
       => (items' = items /\ res'.code # 200)]_vars

\* an update was refused with every record slot filled (so the record
\* existed) while its claim was submitted
C1_Witness ==
  /\ res = Reply("update", 500)
  /\ FreeIds = {}
  /\ \A i \in ItemIds : claims[items[i].claim].status = "submitted"

\* C2: no step adds a record to a claim whose status is not draft.
C2_NoInsertUnlessDraft ==
  [][\A c \in ClaimIds :
       claims[c].status # "draft" => (ItemsOf(c))' \subseteq ItemsOf(c)]_vars

\* C3: while a claim is not ready, no step of a submit handler POSTs an
\* envelope for it or changes its row.
C3_SubmitOnlyFromReady ==
  [][\A r \in Slots, c \in ClaimIds :
       (claims[c].status # "ready" /\ StepOf(r, SubmitOps))
       => (~Posts(r) /\ claims'[c] = claims[c])]_vars

\* C4: when a submit that POSTed the envelope of a ready claim returns,
\* the claim is submitted, whatever the outcome of the POST.
C4_SubmittedWhateverOutcome ==
  [][\A r \in Slots :
       (AwaitingGateway(r) /\ claims[slot[r].claim].status = "ready" /\ slot'[r] = Idle)
       => claims'[slot[r].claim].status = "submitted"]_vars

\* C5: when the POST of a submit fails (non-2xx, timeout, network), the
\* claim's last message after the handler returns is a failure message.
FailureMessages == {"test_failed", "isv_http_failed", "isv_fetch_failed"}
C5_TransportFailureRecorded ==
  [][\A r \in Slots, o \in Outcomes \ {"ok2xx"} :
       (SubmitStore(r, o) \/ IsvSubmitStore(r, o) \/ IsvStore(r, o))
       => claims'[slot[r].claim].hmrc_last_message \in FailureMessages]_vars

\* C6: a mark-ready request never changes the row of a claim that is
\* submitted or later.
C6_MarkReadyRejectedOnceSubmitted ==
  [][\A r \in Slots :
       (MarkReadyWrite(r) /\ claims[slot[r].claim].status \in
            {"submitted", "accepted", "rejected", "failed"})
       => claims' = claims]_vars

C9_TotalsFrozen ==
  [][\A c \in ClaimIds :
       claims[c].status = "ready"
                 => /\ claims'[c].donation_count = claims[c].donation_count
                    /\ claims'[c].total_amount = claims[c].total_amount]_vars

\* C10: while the charity carries no tax-authority identifier, no step
\* POSTs an envelope and no step advances a claim to submitted.
C10_SubmitNeedsCharId ==
  [][(charity.charity_number = "" /\ charity.charity_id = "")
       => /\ \A r \in Slots : ~Posts(r)
          /\ \A c \in ClaimIds :
               claims'[c].status = "submitted" => claims[c].status = "submitted"]_vars

\* C11: a poll on a submitted claim whose 2xx reply carries the gateway's
\* final answer moves the claim to accepted, rejected or failed, and no
\* step other than a poll's moves a claim into one of these states.
TerminalStates == {"accepted", "rejected", "failed"}
C11_PollReachesTerminal ==
  [][\A c \in ClaimIds :
       /\ \A r \in Slots, q \in {"response", "error"} :
            (PollStore(r, "ok2xx", q) /\ slot[r].claim = c /\ claims[c].status = "submitted")
            => claims'[c].status \in TerminalStates
       /\ (claims'[c].status \in TerminalStates /\ claims[c].status \notin TerminalStates)
            => \E r \in Slots : slot[r].op = "poll" /\ slot[r].claim = c
                                 /\ claims[c].status = "submitted"]_vars

\* C13: whenever hmrcTestSubmit or hmrcTestPoll ends in a timeout, a
\* network failure or a non-2xx response, the transport returns a value
\* to its caller, and the values of the three failure kinds differ.
TransportFailures == {"non2xx", "timeout", "network"}
C13_TransportOutcomesAsValues ==
  [][\A r \in Slots, o \in TransportFailures :
       (SubmitStore(r, o) \/ \E q \in PollReplies : PollStore(r, o, q))
       => /\ httpPostXml(o).returns
          /\ \A o2 \in TransportFailures \ {o} : httpPostXml(o2) # httpPostXml(o)]_vars

\* C14: a submit invoked on a claim (past draft) whose last message
\* records a failed transport is taken up again, and every submit that
\* writes the claim's row stores the claim id as its correlation id.
C14_RetrySafe ==
  [][\A r \in Slots, c \in ClaimIds :
       /\ ( /\ SubmitLoadClaim(r, c)
            /\ claims[c].status # "draft"
            /\ claims[c].hmrc_last_message \in FailureMessages )
          => slot'[r].op = "submit"
       /\ (StepOf(r, SubmitOps) /\ slot[r].claim = c /\ claims'[c].status = "submitted"
             /\ claims'[c] # claims[c])
          => claims'[c].hmrc_correlation_id = c]_vars

\* text position of the first symbol equal to tag (0: none)
IndexOf(doc, tag) ==
  LET at == {i \in 1..Len(doc) : doc[i] = tag}
  IN IF at = {} THEN 0 ELSE CHOOSE i \in at : \A j \in at : i <= j
\* the text between the markup pieces open and next of a document
Between(doc, open, next) == SubSeq(doc, IndexOf(doc, open) + 1, IndexOf(doc, next) - 1)

\* C15: in every document the builder returns, under HMRC_XML_MODE ETS
\* or LIVE the CorrelationID and the GatewayTimestamp are blank, and
\* under LTS the GatewayTimestamp is not blank.
C15_HeaderFollowsMode ==
  built.ok =>
    /\ config.mode \in {"ETS", "LIVE"}
         => /\ Between(built.doc, "<CorrelationID>", "<GatewayTimestamp>") = <<>>
            /\ Between(built.doc, "<GatewayTimestamp>", "<SenderID>") = <<>>
    /\ config.mode = "LTS"
         => Between(built.doc, "<GatewayTimestamp>", "<SenderID>") # <<>>

\* C16: two calls of the builder for the same claim, charity, records
\* and configuration that both return a document return the same document
\* when HMRC_XML_MODE is ETS or LIVE.
C16_BuildDeterministic ==
  (built.ok /\ builtBefore.ok /\ config.mode \in {"ETS", "LIVE"})
  => built.doc = builtBefore.doc

\* the <Date> and <Total> of each donation row of a document, in order
RECURSIVE RowsOf(_, _)
RowsOf(doc, i) ==
  IF i > Len(doc) THEN <<>>
  ELSE IF doc[i] = "<Date>" THEN << <<doc[i + 1], doc[i + 3]>> >> \o RowsOf(doc, i + 4)
  ELSE RowsOf(doc, i + 1)

\* C17: a returned document has one donation row per record of the
\* claim, in the order the records were input, each with that record's
\* date and amount.
C17_RowsInInputOrder ==
  built.ok =>
    RowsOf(built.doc, 1) =
      [i \in 1..Len(donors) |-> <<normalizeDate(donors[i].date), formatMoney(donors[i].amount)>>]

\* a record the build must refuse: a required text empty once trimmed, a
\* date that is no calendar date, or an amount not above zero
RefusedRecord(item) ==
  \/ Trim(item.fore) = <<>> \/ Trim(item.sur) = <<>> \/ Trim(item.house) = <<>>
  \/ normalizePostcode(item.postcode) = <<>>
  \/ item.date \notin {"2024-05-01", "2024-06-15"}
  \/ ~(item.amount > 0)
FieldErrors ==
  {"First Name is required", "Last Name is required", "Address is required",
   "Postcode is required", "Donation Date is required (YYYY-MM-DD)",
   "Donation Amount must be > 0"}

\* C18: a build (of a claim whose charity has its identifier) with a
\* record that has an empty name, address or postcode, an unparseable date
\* or an amount not above zero fails with an error naming the field and
\* returns no document.
C18_BuildValidatesRecords ==
  ( /\ built # NotBuilt
    /\ charity.charity_id # ""
    /\ \E i \in 1..Len(donors) : RefusedRecord(donors[i]) )
  => (~built.ok /\ built.doc = <<>> /\ built.error \in FieldErrors)

EntityNames == {"amp;", "lt;", "gt;", "quot;", "apos;"}
C20_ValuesEscaped ==
  built.ok =>
    \A i \in 1..Len(built.doc) :
       /\ built.doc[i] \notin {"<", ">", "\"", "'"}
       /\ built.doc[i] = "&" => (i < Len(built.doc) /\ built.doc[i + 1] \in EntityNames)

\* a document was returned for a record whose first name is >"' with
\* credentials from the environment holding < and &
C20_Witness ==
  /\ built.ok
  /\ config.creds = "env"
  /\ \E i \in 1..Len(donors) : donors[i].fore = <<">", "\"", "'">>
  /\ IndexOf(built.doc, "apos;") # 0

\* C12: once the charity has a connection row and no save-connection
\* request is in flight, exactly one of its connections is active.
C12_ExactlyOneActive ==
  ((\A s \in Savers : saves[s].pc = "idle") /\ (\E k \in ConnIds : conns[k].exists))
  => Cardinality(ActiveConns) = 1

\* the least normalized donation_date over the claim's records
MinDonationDate ==
  LET dates == {normalizeDate(donors[i].date) : i \in 1..Len(donors)}
  IN CHOOSE d \in dates : \A e \in dates : DateRank(d) <= DateRank(e)

\* C21: the EarliestGAdate of a returned document is the least normalized
\* donation_date of the claim's records (all of them dated), and the
\* claim's period start when the claim has no record.
C21_EarliestGAdate ==
  built.ok =>
    /\ (donors # <<>> /\ \A i \in 1..Len(donors) : normalizeDate(donors[i].date) # "")
         => Between(built.doc, "<EarliestGAdate>", "</Repayment>") = <<MinDonationDate>>
    /\ donors = <<>>
         => Between(built.doc, "<EarliestGAdate>", "</Repayment>") = <<PeriodStart>>

\* C22: under a valid secret encryptJson returns a payload, and
\* decryptJson of the payload as stored returns an object equal to the
\* one that was encrypted.
C22_RoundTrip ==
  /\ (sealed # NotSealed /\ Len(KEY) >= KeyMinLength) => sealed.ok
  /\ (opened # NotOpened /\ credentials_encrypted = sealed.payload)
       => (opened.ok /\ opened.value = credObj)

\* a password holding a quote and a backslash came back from the payload
C22_Witness ==
  /\ opened.ok
  /\ credentials_encrypted = sealed.payload
  /\ credObj.gatewayPassword = <<"p", "\"", "\\">>
  /\ opened.value.gatewayPassword = <<"p", "\"", "\\">>

\* C23: decryptJson of a stored payload whose tag part or ciphertext part
\* is not the one encryptJson produced, or that has not three parts,
\* throws.
C23_TamperFailsClosed ==
  LET parts == Split(credentials_encrypted, 1, <<>>)
      made == Split(sealed.payload, 1, <<>>)
  IN (opened # NotOpened /\ (Len(parts) # 3 \/ parts[2] # made[2] \/ parts[3] # made[3]))
     => ~opened.ok

\* the identifier the builder sends for a charity: charity_number, or
\* else the legacy charity_id
StoredIdentifier(row) ==
  IF row.charity_number # <<>> THEN row.charity_number ELSE row.charity_id

\* C24: the stored tax-authority identifier of every charity is not
\* empty, is upper case, holds only letters, digits and hyphens, and has
\* 3 to 30 characters.
C24_CharIdValid ==
  \A k \in CharityRows :
     charities[k].exists =>
       LET id == StoredIdentifier(charities[k])
       IN /\ Len(id) >= MinCharIdLength /\ Len(id) <= MaxCharIdLength
          /\ \A i \in 1..Len(id) : id[i] \in UpperLetters \cup Digits \cup {"-"}

\* a date of the calendar (2024-13-45 has the shape of one and is none)
CalendarDate(d) == d \in {"2024-05-01", "2024-06-15"}

\* C25: every donation record the entry handlers (add, import, edit) wrote
\* has an amount above zero and a donation date that is a calendar date.
C25_WrittenRecordsValid ==
  \A i \in 1..Len(written) :
    written[i].amount > 0 /\ CalendarDate(written[i].date)

\* C26: the submit handler guards the transition by reading the row and
\* writing it later, with no lock: its ready check looks at the status
\* alone, so a ready claim is never refused because another submit of the
\* same claim is in flight; and the status becomes submitted only when a
\* submit that POSTed returns, so every submit that started before then
\* passed the check and POSTs.
C26_SubmitReadThenWrite ==
  [][\A c \in ClaimIds :
       /\ (slot' = slot /\ res' # res /\ res'.op = "submit")
            => claims[c].status # "ready"
       /\ \A r \in DOMAIN slot :
            (slot[r].op = "idle" /\ slot'[r].op = "submit" /\ slot'[r].claim = c)
            => claims[c].status = "ready"
       /\ (claims[c].status = "ready" /\ claims'[c].status = "submitted")
            => \E r \in DOMAIN slot :
                 slot[r].op = "submit" /\ slot[r].pc = "receive" /\ slot'[r] = Idle]_vars

\* two submits of the same claim have both POSTed and the claim is ready
C26_Witness ==
  /\ \A r \in RaceSlots : r \in DOMAIN slot /\ AwaitingGateway(r) /\ slot[r].op = "submit" /\ slot[r].claim = "c1"
  /\ claims["c1"].status = "ready"

\* the call in slot r has sent a request to the gateway host: the
\* preflight GET of the second submit-to-ISV revision, or a POST
ContactedGateway(r) ==
  \/ slot[r].op = "isv2" /\ slot[r].pc \in {"generate", "receive"}
  \/ AwaitingGateway(r)
\* this step is a submit of slot r ending because its build threw
BuildFails(r) ==
  \/ slot[r].pc = "generate" /\ slot'[r] = Idle
  \/ slot[r].op = "idle" /\ slot' = slot /\ res' # res /\ res' = Reply("isv1", 500)

\* C27: when the build of the document fails during a submit, that call has
\* sent no request to the gateway host and leaves the claim row as it was.
C27_BuildFailureSendsNothing ==
  [][\A r \in Slots :
       BuildFails(r) => (~ContactedGateway(r) /\ ~Posts(r) /\ claims' = claims)]_vars

\* C28: a claim that is ready or submitted carries the number of its stored
\* donation records as donation_count and the sum of their amounts as
\* total_amount, in every reachable state.
C28_TotalsMatchRecords ==
  \A c \in ClaimIds :
    claims[c].status \in {"ready", "submitted"}
    => /\ claims[c].donation_count = Cardinality(ItemsOf(c))
       /\ claims[c].total_amount = SumOver(ItemsOf(c))

\* C29: once the save-connection requests have returned, the charity's
\* hmrc_connection_id names a connection of the charity that is active, so
\* the submit handler's lookup of the active connection finds it.
C29_PointerIsActive ==
  ((\A s \in Savers : saves[s].pc = "idle") /\ hmrc_connection_id # 0)
  => /\ conns[hmrc_connection_id].exists
     /\ conns[hmrc_connection_id].active
     /\ LoadActiveConnection = "found"

\* the document holds the text t as the content of a Fore element
HoldsForename(doc, t) ==
  \E p \in 1..Len(doc) :
    /\ doc[p] = "<Fore>"
    /\ p + Len(t) <= Len(doc)
    /\ SubSeq(doc, p + 1, p + Len(t)) = t

\* C30: a first name holding "{{" is data, never a placeholder: the build
\* does not fail with the unreplaced-placeholder error because of it, and
\* a returned document holds the first name as it was stored.
C30_DonorTextNotPlaceholder ==
  \A i \in 1..Len(donors) :
    IndexOfBraces(donors[i].fore) # 0
    => /\ built.error # "XML template still has unreplaced placeholders"
       /\ built.ok => HoldsForename(built.doc, donors[i].fore)

Next ==
  \/ \E i \in ItemIds, a \in InputAmounts : UpdateItem(i, a)
  \/ \E i \in ItemIds : DeleteItem(i)
  \/ \E r \in Slots, c \in ClaimIds, a \in InputAmounts : AddItemCheck(r, c, a)
  \/ \E r \in Slots : AddItemInsert(r)
  \/ \E c \in ClaimIds, a \in InputAmounts : AddItemLater(c, a)
  \/ \E r \in Slots, c \in ClaimIds, rows \in ImportInputs : ImportCsvCheck(r, c, rows)
  \/ \E r \in Slots : ImportCsvInsert(r)
  \/ \E r \in Slots, c \in ClaimIds : MarkReadyRead(r, c)
  \/ \E r \in Slots : MarkReadyWrite(r)
  \/ \E r \in Slots, c \in ClaimIds : SubmitLoadClaim(r, c)
  \/ \E r \in Slots : SubmitLoadCharity(r)
  \/ \E r \in Slots : SubmitLoadItems(r)
  \/ \E r \in Slots, o \in Outcomes : SubmitStore(r, o)
  \/ \E r \in Slots, c \in ClaimIds, m \in XmlModes : IsvSubmitSend(r, c, m)
  \/ \E r \in Slots, o \in Outcomes : IsvSubmitStore(r, o)
  \/ \E r \in Slots, c \in ClaimIds, ok \in BOOLEAN : IsvPreflight(r, c, ok)
  \/ \E r \in Slots, m \in XmlModes : IsvGenerateSend(r, m)
  \/ \E r \in Slots, o \in Outcomes : IsvStore(r, o)
  \/ \E r \in Slots, c \in ClaimIds : UserSubmitLoad(r, c)
  \/ \E r \in Slots : UserSubmitCount(r)
  \/ \E r \in Slots, m \in XmlModes : UserSubmitGenerate(r, m)
  \/ \E r \in Slots : UserSubmitAmounts(r)
  \/ \E r \in Slots : UserSubmitStore(r)
  \/ \E r \in Slots, c \in ClaimIds : PollLoadClaim(r, c)
  \/ \E r \in Slots, o \in Outcomes, q \in PollReplies : PollStore(r, o, q)

Spec == Init /\ [][Next]_vars

\* the save-connection endpoints alone, for one charity
InitConn ==
  /\ Init
  /\ charity = [charity_number |-> "XR123", charity_id |-> "XR123"]

NextConn ==
  \/ \E s \in Savers, valid \in BOOLEAN : SaveDeactivate(s, valid)
  \/ \E s \in Savers, ok \in BOOLEAN : SaveInsert(s, ok)
  \/ \E s \in Savers : SavePoint(s)

SpecConn == InitConn /\ [][NextConn]_vars

\* the envelope builder alone: a frozen claim, its charity and the
\* configuration are drawn, then the builder is called
InitXml ==
  /\ InitClaims
  /\ charity \in {[charity_number |-> n, charity_id |-> n] : n \in CharIdValues}
  /\ NoConnections
  /\ donors \in DonorSeqs
  /\ orgName \in OrgNames
  /\ config \in [rev : Revisions, mode : XmlModes, creds : {"unset", "env"}]
  /\ NoBuilds
  /\ KEY = "0123456789abcdef"
  /\ NoVault
  /\ NoEntries

NextXml ==
  \E order \in OrderedSelects, now \in Clock : GenerateXml(order, now)

SpecXml == InitXml /\ [][NextXml]_vars

\* the credential vault alone: a secret is configured, credentials are
\* saved, the stored payload may be rewritten, a submit opens it
InitVault ==
  /\ InitClaims
  /\ charity = [charity_number |-> "XR123", charity_id |-> "XR123"]
  /\ NoConnections
  /\ donors = <<>>
  /\ orgName = <<"O">>
  /\ config = [rev |-> "modes", mode |-> "ETS", creds |-> "unset"]
  /\ NoBuilds
  /\ KEY \in Secrets
  /\ NoVault
  /\ NoEntries

NextVault ==
  \/ \E obj \in CredObjects, iv \in RandomIvs : SealCredentials(obj, iv)
  \/ \E text \in Tamperings(sealed.payload) : Tamper(text)
  \/ OpenCredentials

SpecVault == InitVault /\ [][NextVault]_vars

\* the handlers that write a charity's identifier
InitCharities ==
  /\ Init
  /\ charity = [charity_number |-> "XR123", charity_id |-> "XR123"]

NextCharities ==
  \/ \E id \in IdInputs, number \in {<<>>, <<"X", "R", "1">>} : SetupCharity(id, number)
  \/ \E number \in IdInputs : SetupCharityCharId(number)
  \/ \E number \in IdInputs : SetupCharityOptional(number)
  \/ \E k \in CharityRows, input \in IdInputs : UpdateHmrcCharId(k, input)
  \/ \E k \in CharityRows, input \in IdInputs : UpdateCharityNumber(k, input)

SpecCharities == InitCharities /\ [][NextCharities]_vars

\* ------------------------------------ specification of the entry handlers
InitEntry ==
  /\ Init
  /\ charity = [charity_number |-> "XR123", charity_id |-> "XR123"]

NextEntry ==
  \/ \E d \in EntryDates, a \in EntryAmounts : AddItem(d, a)
  \/ \E d \in EntryDates, a \in EntryAmounts : AddItemDateRequired(d, a)
  \/ \E d \in EntryDates, a \in EntryAmounts : AddItemAmountGiven(d, a)
  \/ \E d \in EntryDates, a \in EntryAmounts : CreateItem(d, a)
  \/ \E k \in 1..MaxWritten, d \in EntryDates, a \in EntryAmounts : EditItem(k, d, a)
  \/ \E r1 \in EntryRows : ImportRows(<<r1>>)
  \/ \E r1 \in EntryRows, r2 \in EntryRows : ImportRows(<<r1, r2>>)

SpecEntry == InitEntry /\ [][NextEntry]_vars

\* ---------------------------- specification of two concurrent requests
InitRace ==
  /\ claims = [c \in ClaimIds |->
       [status |-> "draft", donation_count |-> 0, total_amount |-> 0,
        hmrc_correlation_id |-> "", hmrc_last_message |-> "none"]]
  /\ items = [i \in ItemIds |-> NoItem]
  /\ slot = [r \in RaceSlots |-> Idle]
  /\ res = NoRes
  /\ charity \in [charity_number : CharIdValues, charity_id : CharIdValues]
  /\ NoConnections
  /\ donors = <<>>
  /\ orgName = <<"O">>
  /\ config = [rev |-> "modes", mode |-> "ETS", creds |-> "unset"]
  /\ NoBuilds
  /\ KEY = "0123456789abcdef"
  /\ NoVault
  /\ NoEntries

NextRace ==
  \/ \E r \in RaceSlots, c \in ClaimIds, a \in InputAmounts : AddItemCheck(r, c, a)
  \/ \E r \in RaceSlots : AddItemInsert(r)
  \/ \E r \in RaceSlots, c \in ClaimIds : MarkReadyRead(r, c)
  \/ \E r \in RaceSlots : MarkReadyWrite(r)
  \/ \E r \in RaceSlots, c \in ClaimIds : SubmitLoadClaim(r, c)
  \/ \E r \in RaceSlots : SubmitLoadCharity(r)
  \/ \E r \in RaceSlots : SubmitLoadItems(r)
  \/ \E r \in RaceSlots, o \in Outcomes : SubmitStore(r, o)

SpecRace == InitRace /\ [][NextRace]_vars

====
